---------------------------- MODULE Spec2Model ----------------------------
(***************************************************************************)
(* State-machine model of the client-side orchestration of Humality's     *)
(* App component (src/src/App.tsx, the component that starts at line 731)  *)
(* and of its history service (src/src/services/history.ts).               *)
(*                                                                         *)
(* One action is one run-to-completion piece of a handler: the code from   *)
(* the handler's entry (or from the resumption after an await, or from a   *)
(* timer's expiry) up to the next await or the end.  React batches the     *)
(* setState calls of such a piece and commits them; a state of the model   *)
(* is a committed render.  The output-animation effect is a callback of    *)
(* its own: it runs after a commit that changed one of its dependencies,   *)
(* before any other handler or timer is served.  Handlers are closures:    *)
(* the values of inputText, tone, user and history that an asynchronous    *)
(* handler reads after an await are the ones of the render in which it was *)
(* called, so they are stored with the call in flight.                     *)
(***************************************************************************)
EXTENDS Integers, Sequences, FiniteSets, TLC

VARIABLES
    inputText,            \* useState('')            App.tsx:733
    outputText,           \* useState('')            App.tsx:734
    displayedOutput,      \* useState('')            App.tsx:735
    shouldAnimateOutput,  \* useState(false)         App.tsx:736
    isAnimatingOutput,    \* useState(false)         App.tsx:737
    tone,                 \* useState('natural')     App.tsx:738
    isConverting,         \* useState(false)         App.tsx:741
    inputAIAnalysis,      \* useState(null)          App.tsx:744
    outputAIAnalysis,     \* useState(null)          App.tsx:745
    isDetecting,          \* useState(false)         App.tsx:746
    detectionTimeout,     \* useState(null): handle of the debounce timer set last
    timers,               \* the debounce timers armed by window.setTimeout (App.tsx:848)
    history,              \* useState([])            App.tsx:749
    showHistory,          \* useState(false)         App.tsx:751
    user,                 \* useState(null)          App.tsx:752
    animTimer,            \* outputAnimationTimeoutRef and the closure of animate
    effectPending,        \* the animation effect is due for the committed render
    detects,              \* /detect-ai requests in flight
    convs,                \* handleConvert calls in flight
    loads,                \* fetchHistoryEntries calls in flight
    deletes,              \* deleteHistoryEntry calls in flight
    clears,               \* clearAllHistory calls in flight
    remote,               \* the Firestore collections histories/<uid>/entries
    nReq,                 \* detection requests issued so far
    nConv,                \* handleConvert calls that passed validation so far
    now,                  \* Date.now()
    mounted,              \* the component is mounted
    toasts                \* the toasts raised by the latest step

vars == << inputText, outputText, displayedOutput, shouldAnimateOutput,
           isAnimatingOutput, tone, isConverting, inputAIAnalysis,
           outputAIAnalysis, isDetecting, detectionTimeout, timers, history,
           showHistory, user, animTimer, effectPending, detects, convs,
           loads, deletes, clears, remote, nReq, nConv, now, mounted, toasts >>

-----------------------------------------------------------------------------
(* Bounds of the model *)

MaxConv == 2
MaxConvBase == 1
MaxReq == 2
MaxNow == 1
MaxPending == 2
MaxScoreLen == 4

(* Program constants *)

MinDetectLength == 10
HistoryPageSize == 20

-----------------------------------------------------------------------------
(* Texts are sequences of one-character strings. *)

Rep(ch, n) == [i \in 1..n |-> ch]

TxtEmpty == << >>
TxtSpaces == << " ", " " >>
TxtNine == << " " >> \o Rep("c", 9) \o << " " >>
TxtA == Rep("a", 10)
TxtB == << " " >> \o Rep("b", 10)

InTexts == { TxtEmpty, TxtSpaces, TxtNine, TxtA, TxtB }

OutX == << "x", "y" >>
OutZ == << "z", "w" >>

\* The texts the rewrite collaborator answers with.
OutTexts == { OutZ }


Users == { "u1", "u2" }
NoUser == "none"

Scores == { 20, 80 }


-----------------------------------------------------------------------------
(* String.prototype.trim, String.prototype.slice(0, n) and the prefix order *)

IsSpace(ch) == ch = " "

RECURSIVE TrimStart(_)
TrimStart(s) ==
    IF s = << >> THEN << >>
    ELSE IF IsSpace(Head(s)) THEN TrimStart(Tail(s)) ELSE s

RECURSIVE TrimEnd(_)
TrimEnd(s) ==
    IF s = << >> THEN << >>
    ELSE IF IsSpace(s[Len(s)]) THEN TrimEnd(SubSeq(s, 1, Len(s) - 1)) ELSE s

Trim(s) == TrimEnd(TrimStart(s))

Slice0(s, n) == SubSeq(s, 1, IF n < Len(s) THEN n ELSE Len(s))

IsPrefix(p, s) == Len(p) <= Len(s) /\ SubSeq(s, 1, Len(p)) = p

Range(f) == { f[i] : i \in DOMAIN f }

-----------------------------------------------------------------------------
(* Values *)

\* inputAIAnalysis / outputAIAnalysis: null (or undefined), or a
\* DetectionResult.  kind and src say where the result came from: the
\* /detect-ai request number src, the handleConvert call number src, or a
\* history entry.
NoAnalysis == [kind |-> "null", src |-> 0, score |-> 0]
DetectResult(req, score) == [kind |-> "detect", src |-> req, score |-> score]
InlineResult(call, score) == [kind |-> "inline", src |-> call, score |-> score]
RestoredResult(score) == [kind |-> "restored", src |-> 0, score |-> score]

\* detectionTimeout is null or the handle window.setTimeout gave for the
\* debounce timer set last.  An armed timer has its handle and the text its
\* callback closes over.  Two fields are bookkeeping the code does not
\* store: burst is 2 when arming the timer cancelled the timer of an earlier
\* change and 1 otherwise, conv is the number of conversions started before
\* the timer was armed.  A handle is free again once its timer fired or was
\* cleared.
NoTimeout == 0
ArmedTimeout(id, text, burst) ==
    [id |-> id, text |-> text, burst |-> burst, conv |-> nConv]

FreshHandle(armed) ==
    CHOOSE id \in 1..(Cardinality(armed) + 1) :
        /\ \A t \in armed : t.id # id
        /\ \A k \in 1..(id - 1) : \E t \in armed : t.id = k

\* outputAnimationTimeoutRef.current and the closure of animate: the pending
\* timer, the target outputText it slices and its index.
NoAnim == [pending |-> FALSE, target |-> << >>, index |-> 0]
PendingAnim(target, index) == [pending |-> TRUE, target |-> target, index |-> index]

\* Toast messages
ToastEmptyInput == "Please enter some text to humanize"
ToastGeneric == "Failed to humanize text. Please try again."
ToastDetail == "detail"
ToastFetchFailed == "Failed to fetch"
ToastTypeError == "Cannot read properties of undefined (reading 'score')"
ToastSyncFailed == "Saved conversion locally, but syncing to the cloud failed."
ToastSuccess == "Text humanized and analyzed successfully!"
ToastRestored == "History restored!"
ToastDeleteFailed == "Unable to delete entry right now."
ToastDeleted == "History entry deleted"
ToastClearFailed == "Unable to clear history right now."
ToastCleared == "History cleared"
ToastLoadFailed == "Could not load your history at this time."
ToastSignInFirst == "Sign in to view your conversion history."

-----------------------------------------------------------------------------
(* The output text animation effect, App.tsx:1195-1237 *)

\* EffectBody without the clearTimeout of lines 1196-1199 and 1231-1236 when
\* the new render does not animate.
EffectBody_KeepsTimer(ot, sa) ==
    IF ot = << >>
    THEN [disp |-> << >>, sa |-> FALSE, ia |-> FALSE, an |-> NoAnim]
    ELSE IF ~sa
    THEN [disp |-> ot, sa |-> sa, ia |-> FALSE, an |-> animTimer]
    ELSE [disp |-> << >>, sa |-> sa, ia |-> TRUE, an |-> PendingAnim(ot, 0)]

\* The clean-up of the previous run (lines 1231-1236) and lines 1196-1229 for
\* a render with outputText = ot and shouldAnimateOutput = sa: the timer is
\* cleared, and the values the body sets are given.
EffectBody(ot, sa) ==
    IF ot = << >>
    THEN [disp |-> << >>, sa |-> FALSE, ia |-> FALSE, an |-> NoAnim]
    ELSE IF ~sa
    THEN [disp |-> ot, sa |-> sa, ia |-> FALSE, an |-> NoAnim]
    ELSE [disp |-> << >>, sa |-> sa, ia |-> TRUE, an |-> PendingAnim(ot, 0)]

\* The commit of a batch that leaves outputText = ot, shouldAnimateOutput =
\* sa, displayedOutput = disp, isAnimatingOutput = ia and the timer an.  The
\* effect is due when ot or sa differs from the previous render (line 1237).
CommitOutput(ot, sa, disp, ia, an) ==
    /\ outputText' = ot
    /\ displayedOutput' = disp
    /\ shouldAnimateOutput' = sa
    /\ isAnimatingOutput' = ia
    /\ animTimer' = an
    /\ effectPending' = (ot # outputText \/ sa # shouldAnimateOutput)

outputVars == << outputText, displayedOutput, shouldAnimateOutput,
                 isAnimatingOutput, animTimer, effectPending >>

\* The effect runs for the committed render; what it sets is committed, and
\* the effect is due again when it changed shouldAnimateOutput (line 1204).
OutputEffectRuns ==
    /\ effectPending
    /\ LET r == EffectBody(outputText, shouldAnimateOutput) IN
         /\ CommitOutput(outputText, r.sa, r.disp, r.ia, r.an)
    /\ toasts' = << >>
    /\ UNCHANGED << inputText, tone, isConverting, inputAIAnalysis,
                    outputAIAnalysis, isDetecting, detectionTimeout, timers, history,
                    showHistory, user, detects, convs, loads,
                    deletes, clears, remote, nReq, nConv, now, mounted >>

\* AnimateTick with setIsAnimatingOutput(false) at every expiry.
AnimateTick_ClearsFlagEarly ==
    /\ animTimer.pending
    /\ LET index == animTimer.index + 1
           shown == Slice0(animTimer.target, index)
       IN IF index < Len(animTimer.target)
          THEN /\ displayedOutput' = shown
               /\ animTimer' = PendingAnim(animTimer.target, index)
               /\ isAnimatingOutput' = FALSE
               /\ UNCHANGED << outputText, shouldAnimateOutput, effectPending >>
          ELSE CommitOutput(outputText, FALSE, shown, FALSE, NoAnim)
    /\ toasts' = << >>
    /\ UNCHANGED << inputText, tone, isConverting, inputAIAnalysis,
                    outputAIAnalysis, isDetecting, detectionTimeout, timers, history,
                    showHistory, user, detects, convs, loads,
                    deletes, clears, remote, nReq, nConv, now, mounted >>

\* AnimateTick without the setTimeout of line 1222.
AnimateTick_NoRearm ==
    /\ animTimer.pending
    /\ LET index == animTimer.index + 1
           shown == Slice0(animTimer.target, index)
       IN IF index < Len(animTimer.target)
          THEN /\ displayedOutput' = shown
               /\ animTimer' = NoAnim
               /\ UNCHANGED << outputText, shouldAnimateOutput,
                               isAnimatingOutput, effectPending >>
          ELSE CommitOutput(outputText, FALSE, shown, FALSE, NoAnim)
    /\ toasts' = << >>
    /\ UNCHANGED << inputText, tone, isConverting, inputAIAnalysis,
                    outputAIAnalysis, isDetecting, detectionTimeout, timers, history,
                    showHistory, user, detects, convs, loads,
                    deletes, clears, remote, nReq, nConv, now, mounted >>

\* animate, App.tsx:1218-1227: one expiry of the reveal timer.
AnimateTick ==
    /\ animTimer.pending
    /\ LET index == animTimer.index + 1
           shown == Slice0(animTimer.target, index)
       IN IF index < Len(animTimer.target)
          THEN /\ displayedOutput' = shown
               /\ animTimer' = PendingAnim(animTimer.target, index)
               /\ UNCHANGED << outputText, shouldAnimateOutput,
                               isAnimatingOutput, effectPending >>
          ELSE CommitOutput(outputText, FALSE, shown, FALSE, NoAnim)
    /\ toasts' = << >>
    /\ UNCHANGED << inputText, tone, isConverting, inputAIAnalysis,
                    outputAIAnalysis, isDetecting, detectionTimeout, timers, history,
                    showHistory, user, detects, convs, loads,
                    deletes, clears, remote, nReq, nConv, now, mounted >>

-----------------------------------------------------------------------------
(* Debounced AI detection for the input, App.tsx:833-867 *)

\* window.clearTimeout(handle): the timer of that handle, if armed, is gone.
ClearTimeout(armed, handle) == { t \in armed : t.id # handle }

\* HandleInputChange without setInputAIAnalysis(null) at line 842.
HandleInputChange_KeepsAnalysis(text) ==
    /\ inputText' = text
    /\ LET cleared == ClearTimeout(timers, detectionTimeout)
           burst == IF cleared # timers THEN 2 ELSE 1
           timeout == FreshHandle(cleared)
       IN IF Len(Trim(text)) < MinDetectLength
          THEN /\ isDetecting' = FALSE
               /\ timers' = cleared
               /\ UNCHANGED << detectionTimeout, inputAIAnalysis >>
          ELSE /\ isDetecting' = TRUE
               /\ timers' = cleared \cup { ArmedTimeout(timeout, text, burst) }
               /\ detectionTimeout' = timeout
               /\ UNCHANGED inputAIAnalysis
    /\ toasts' = << >>
    /\ UNCHANGED << outputVars, tone, isConverting, outputAIAnalysis, history,
                    showHistory, user, detects, convs, loads,
                    deletes, clears, remote, nReq, nConv, now, mounted >>

\* HandleInputChange without window.clearTimeout at lines 837-839.
HandleInputChange_NoClear(text) ==
    /\ inputText' = text
    /\ LET timeout == FreshHandle(timers)
       IN IF Len(Trim(text)) < MinDetectLength
          THEN /\ inputAIAnalysis' = NoAnalysis
               /\ isDetecting' = FALSE
               /\ UNCHANGED << detectionTimeout, timers >>
          ELSE /\ isDetecting' = TRUE
               /\ timers' = timers \cup { ArmedTimeout(timeout, text, 1) }
               /\ detectionTimeout' = timeout
               /\ UNCHANGED inputAIAnalysis
    /\ toasts' = << >>
    /\ UNCHANGED << outputVars, tone, isConverting, outputAIAnalysis, history,
                    showHistory, user, detects, convs, loads,
                    deletes, clears, remote, nReq, nConv, now, mounted >>

\* handleInputChange up to the arming of the timer.
HandleInputChange(text) ==
    /\ inputText' = text
    /\ LET cleared == ClearTimeout(timers, detectionTimeout)
           burst == IF cleared # timers THEN 2 ELSE 1
           timeout == FreshHandle(cleared)
       IN IF Len(Trim(text)) < MinDetectLength
          THEN /\ inputAIAnalysis' = NoAnalysis
               /\ isDetecting' = FALSE
               /\ timers' = cleared
               /\ UNCHANGED detectionTimeout
          ELSE /\ isDetecting' = TRUE
               /\ timers' = cleared \cup { ArmedTimeout(timeout, text, burst) }
               /\ detectionTimeout' = timeout
               /\ UNCHANGED inputAIAnalysis
    /\ toasts' = << >>
    /\ UNCHANGED << outputVars, tone, isConverting, outputAIAnalysis, history,
                    showHistory, user, detects, convs, loads,
                    deletes, clears, remote, nReq, nConv, now, mounted >>

\* The timer callback up to its await: the /detect-ai request is issued.
\* Nothing clears the timer when the component is torn down, and fetch does
\* not depend on the component.
DetectionTimerFires ==
    /\ nReq < MaxReq
    /\ \E t \in timers :
          /\ timers' = timers \ { t }
          /\ detects' = detects \cup
                 { [req |-> nReq + 1, text |-> t.text, burst |-> t.burst,
                    conv |-> t.conv] }
    /\ nReq' = nReq + 1
    /\ toasts' = << >>
    /\ UNCHANGED << outputVars, inputText, tone, isConverting, inputAIAnalysis,
                    outputAIAnalysis, isDetecting, detectionTimeout, history,
                    showHistory, user, convs, loads, deletes, clears, remote,
                    nConv, now, mounted >>

\* DetectionResponse with the analysis reset when the request failed.
DetectionResponse_ClearsOnFailure(d, ok, score) ==
    /\ d \in detects
    /\ detects' = detects \ { d }
    /\ inputAIAnalysis' = IF ~mounted THEN inputAIAnalysis
                          ELSE IF ok THEN DetectResult(d.req, score)
                          ELSE NoAnalysis
    /\ isDetecting' = IF mounted THEN FALSE ELSE isDetecting
    /\ toasts' = << >>
    /\ UNCHANGED << outputVars, inputText, tone, isConverting, outputAIAnalysis,
                    detectionTimeout, timers, history, showHistory,
                    user, convs, loads, deletes, clears, remote, nReq, nConv,
                    now, mounted >>

\* The timer callback after its await: response.ok with the detector's data,
\* or a response that is not ok or a thrown error.  React ignores the
\* setState calls of a component that was torn down.
DetectionResponse(d, ok, score) ==
    /\ d \in detects
    /\ detects' = detects \ { d }
    /\ inputAIAnalysis' = IF ok /\ mounted THEN DetectResult(d.req, score)
                          ELSE inputAIAnalysis
    /\ isDetecting' = IF mounted THEN FALSE ELSE isDetecting
    /\ toasts' = << >>
    /\ UNCHANGED << outputVars, inputText, tone, isConverting, outputAIAnalysis,
                    detectionTimeout, timers, history, showHistory,
                    user, convs, loads, deletes, clears, remote, nReq, nConv,
                    now, mounted >>

-----------------------------------------------------------------------------
(* The scoring engine.  Its code is not part of the sources of the client   *)
(* (App.tsx:617-627 declares what it returns); it is modelled from section  *)
(* 4.1 of the specification.                                                *)

\* The sentence terminators of step 1.
IsTerminator(ch) == ch \in { ".", "!", "?" }

\* SplitUnits that keeps only the units a terminator ends.
RECURSIVE SplitUnits_DropsTail(_, _)
SplitUnits_DropsTail(text, cur) ==
    IF text = << >> THEN << >>
    ELSE LET ch == Head(text)
             rest == Tail(text)
         IN IF IsTerminator(ch) /\ (rest = << >> \/ ~IsTerminator(Head(rest)))
            THEN << Append(cur, ch) >> \o SplitUnits_DropsTail(rest, << >>)
            ELSE SplitUnits_DropsTail(rest, Append(cur, ch))

\* Step 1: the text is split into units, each ending with its terminators;
\* what follows the last terminator, or a text with no terminator, is a unit
\* too.  cur is the unit being read.
RECURSIVE SplitUnits(_, _)
SplitUnits(text, cur) ==
    IF text = << >> THEN IF cur = << >> THEN << >> ELSE << cur >>
    ELSE LET ch == Head(text)
             rest == Tail(text)
         IN IF IsTerminator(ch) /\ (rest = << >> \/ ~IsTerminator(Head(rest)))
            THEN << Append(cur, ch) >> \o SplitUnits(rest, << >>)
            ELSE SplitUnits(rest, Append(cur, ch))

\* TextSegment, App.tsx:618-621; aiProbability is kept in hundredths.
TextSegment(text, aiProbability) == [text |-> text, aiProbability |-> aiProbability]

\* The probabilities steps 2 and 3 can give a unit, after the clamp to [0,1].
Probabilities == { 0, 50, 100 }

RECURSIVE SumProbabilities(_)
SumProbabilities(segments) ==
    IF segments = << >> THEN 0
    ELSE Head(segments).aiProbability + SumProbabilities(Tail(segments))

\* Step 4: round(mean(unit scores) * 100); 0 for no unit.
Aggregate(segments) ==
    IF segments = << >> THEN 0
    ELSE (2 * SumProbabilities(segments) + Len(segments)) \div (2 * Len(segments))

\* DetectionResult, App.tsx:623-627, as the engine gives it for text when
\* its units get the probabilities probs.
LocalResult(text, probs) ==
    LET units == SplitUnits(text, << >>)
        segments == [i \in DOMAIN units |-> TextSegment(units[i], probs[i])]
    IN [kind |-> "local", src |-> 0, score |-> Aggregate(segments),
        segments |-> segments]

\* The engine scores the text of the input.
ScoreInput ==
    /\ inputAIAnalysis = NoAnalysis
    /\ \E probs \in [1..Len(SplitUnits(inputText, << >>)) -> Probabilities] :
          inputAIAnalysis' = LocalResult(inputText, probs)
    /\ toasts' = << >>
    /\ UNCHANGED << outputVars, inputText, tone, isConverting, outputAIAnalysis,
                    isDetecting, detectionTimeout, timers, history,
                    showHistory, user, detects, convs, loads, deletes, clears,
                    remote, nReq, nConv, now, mounted >>

-----------------------------------------------------------------------------
(* History entries and the remote store, services/history.ts *)

\* Ids: the id Firestore gives a stored document, or Date.now().toString().
FirestoreId(n) == [src |-> "firestore", n |-> n]
LocalId(t) == [src |-> "local", n |-> t]

\* owner is the uid whose collection or whose conversion the record belongs
\* to; the code does not store it in the entry.  timestamp is createdAt of a
\* stored document (serverTimestamp) and Date.now() of an entry made at line
\* 936, both read from the one clock now.
Entry(id, owner, text, out, tn, inScore, outScore, ts) ==
    [id |-> id, owner |-> owner, inputText |-> text, outputText |-> out,
     tone |-> tn, inputAIPercentage |-> inScore, outputAIPercentage |-> outScore,
     timestamp |-> ts]

\* mapHistoryDocumentToEntry, App.tsx:686-696
MapHistoryDocumentToEntry(doc) ==
    Entry(doc.id, doc.owner, doc.inputText, doc.outputText, doc.tone,
          doc.inputAIPercentage, doc.outputAIPercentage, doc.timestamp)

\* fetchHistoryEntries: orderBy('createdAt', 'desc'), limit(take).  A
\* collection is kept newest first.
FetchHistoryEntries(uid, take) ==
    SubSeq(remote[uid], 1, IF take < Len(remote[uid]) THEN take ELSE Len(remote[uid]))

MapEntries(docs) == [i \in DOMAIN docs |-> MapHistoryDocumentToEntry(docs[i])]

\* prev.filter(entry => entry.id !== id)
RECURSIVE FilterOut(_, _)
FilterOut(list, ids) ==
    IF list = << >> THEN << >>
    ELSE IF Head(list).id \in ids THEN FilterOut(Tail(list), ids)
         ELSE << Head(list) >> \o FilterOut(Tail(list), ids)

Ids(list) == { list[i].id : i \in DOMAIN list }

\* The asynchronous calls in flight (rewrite, persist, fetch, delete, clear).
Pending ==
    Cardinality(convs) + Cardinality(loads) + Cardinality(deletes)
    + Cardinality(clears)

\* The document u1 stored in an earlier session.
SeedDoc == Entry(FirestoreId(0), "u1", TxtA, OutX, "casual", 60, 40, 0)

-----------------------------------------------------------------------------
(* handleConvert, App.tsx:869-954 *)

\* What the rewrite collaborator answers: fetch throws, a response that is
\* not ok (with or without a detail), or a response that is ok, with
\* humanized_text (<< >> stands for '' and for a missing field) and with or
\* without the two inline detection results.
DetectionPairs == { << 80, 20 >> }

Responses ==
    { [status |-> "throw", detail |-> FALSE, text |-> << >>, det |-> FALSE,
       inScore |-> 0, outScore |-> 0] }
    \cup { [status |-> "error", detail |-> d, text |-> << >>, det |-> FALSE,
            inScore |-> 0, outScore |-> 0] : d \in BOOLEAN }
    \cup { [status |-> "ok", detail |-> FALSE, text |-> t, det |-> FALSE,
            inScore |-> 0, outScore |-> 0] : t \in OutTexts \cup { << >> } }
    \cup { [status |-> "ok", detail |-> FALSE, text |-> t, det |-> TRUE,
            inScore |-> p[1], outScore |-> p[2]] :
            t \in OutTexts \cup { << >> }, p \in DetectionPairs }

Call(id, text, tn, uid) ==
    [id |-> id, text |-> text, tone |-> tn, uid |-> uid, phase |-> "rewrite",
     humanized |-> << >>, inScore |-> 0, outScore |-> 0]

\* App.tsx:870-873: the validation of the input.
ConvertRejected ==
    /\ Trim(inputText) = << >>
    /\ toasts' = << ToastEmptyInput >>
    /\ UNCHANGED << outputVars, inputText, tone, isConverting, inputAIAnalysis,
                    outputAIAnalysis, isDetecting, detectionTimeout, timers, history,
                    showHistory, user, detects, convs, loads,
                    deletes, clears, remote, nReq, nConv, now, mounted >>

\* ConvertStarted without the validation of lines 870-873.
ConvertStarted_NoValidation ==
    /\ ~isConverting
    /\ nConv < MaxConv
    /\ Pending < MaxPending
    /\ nConv' = nConv + 1
    /\ isConverting' = TRUE
    /\ CommitOutput(<< >>, FALSE, << >>, FALSE, NoAnim)
    /\ outputAIAnalysis' = NoAnalysis
    /\ convs' = convs \cup { Call(nConv + 1, inputText, tone, user) }
    /\ toasts' = << >>
    /\ UNCHANGED << inputText, tone, inputAIAnalysis, isDetecting,
                    detectionTimeout, timers, history, showHistory, user, detects,
                    loads, deletes, clears, remote, nReq, now, mounted >>

\* App.tsx:875-894, handleConvert past its validation: the previous output
\* is cleared and the rewrite request is issued with the text, the tone and
\* the user of this render.  The function does not test isConverting.
ConvertCalled ==
    /\ Trim(inputText) # << >>
    /\ nConv < MaxConv
    /\ Pending < MaxPending
    /\ nConv' = nConv + 1
    /\ isConverting' = TRUE
    /\ CommitOutput(<< >>, FALSE, << >>, FALSE, NoAnim)
    /\ outputAIAnalysis' = NoAnalysis
    /\ convs' = convs \cup { Call(nConv + 1, inputText, tone, user) }
    /\ toasts' = << >>
    /\ UNCHANGED << inputText, tone, inputAIAnalysis, isDetecting,
                    detectionTimeout, timers, history, showHistory,
                    user, detects, loads, deletes, clears, remote, nReq, now, mounted >>

\* The call made from the button, which is disabled while isConverting
\* (App.tsx:1886), so no call starts while another is running.
ConvertStarted == ~isConverting /\ ConvertCalled

HandleConvert == ConvertRejected \/ ConvertStarted

\* ConvertFailed without the finally block of lines 950-953.
ConvertFailed_NoFinally(c, r) ==
    /\ r.status # "ok"
    /\ convs' = convs \ { c }
    /\ toasts' = << IF r.status = "throw" THEN ToastFetchFailed
                    ELSE IF r.detail THEN ToastDetail ELSE ToastGeneric >>
    /\ UNCHANGED << outputVars, inputText, tone, inputAIAnalysis,
                    outputAIAnalysis, detectionTimeout, timers, history,
                    showHistory, user, detects, loads, isConverting,
                    isDetecting, deletes, clears, remote, nReq, nConv, now,
                    mounted >>

\* ConvertFailed with the detail of the error payload ignored.
ConvertFailed_GenericOnly(c, r) ==
    /\ r.status # "ok"
    /\ convs' = convs \ { c }
    /\ toasts' = << IF r.status = "throw" THEN ToastFetchFailed ELSE ToastGeneric >>
    /\ isConverting' = FALSE
    /\ isDetecting' = FALSE
    /\ UNCHANGED << outputVars, inputText, tone, inputAIAnalysis,
                    outputAIAnalysis, detectionTimeout, timers, history, showHistory,
                    user, detects, loads, deletes, clears, remote, nReq, nConv,
                    now, mounted >>

\* App.tsx:896-899, 947-953: the request failed.
ConvertFailed(c, r) ==
    /\ r.status # "ok"
    /\ convs' = convs \ { c }
    /\ toasts' = << IF r.status = "throw" THEN ToastFetchFailed
                    ELSE IF r.detail THEN ToastDetail ELSE ToastGeneric >>
    /\ isConverting' = FALSE
    /\ isDetecting' = FALSE
    /\ UNCHANGED << outputVars, inputText, tone, inputAIAnalysis,
                    outputAIAnalysis, detectionTimeout, timers, history,
                    showHistory, user, detects, loads,
                    deletes, clears, remote, nReq, nConv, now, mounted >>

\* App.tsx:901-908: the output of a response that is ok is shown.
ShowResponse(c, r) ==
    /\ CommitOutput(r.text, TRUE, displayedOutput, isAnimatingOutput, animTimer)
    /\ inputText' = c.text
    /\ inputAIAnalysis' = IF r.det THEN InlineResult(c.id, r.inScore) ELSE NoAnalysis
    /\ outputAIAnalysis' = IF r.det THEN InlineResult(c.id, r.outScore) ELSE NoAnalysis

\* ConvertSucceededAnonymous with the entry appended without the test of
\* user?.uid at line 928.
ConvertSucceededAnonymous_Appends(c, r) ==
    /\ r.status = "ok"
    /\ c.uid = NoUser
    /\ ShowResponse(c, r)
    /\ convs' = convs \ { c }
    /\ history' = << Entry(LocalId(now), c.uid, c.text, r.text, c.tone,
                           r.inScore, r.outScore, now) >> \o history
    /\ toasts' = << ToastSuccess >>
    /\ isConverting' = FALSE
    /\ isDetecting' = FALSE
    /\ UNCHANGED << tone, detectionTimeout, timers, showHistory, user, detects, loads,
                    deletes, clears, remote, nReq, nConv, now, mounted >>

\* App.tsx:901-946 for a call made with no user: nothing is stored.
ConvertSucceededAnonymous(c, r) ==
    /\ r.status = "ok"
    /\ c.uid = NoUser
    /\ ShowResponse(c, r)
    /\ convs' = convs \ { c }
    /\ toasts' = << ToastSuccess >>
    /\ isConverting' = FALSE
    /\ isDetecting' = FALSE
    /\ UNCHANGED << tone, detectionTimeout, timers, history, showHistory, user, detects, loads, deletes, clears, remote,
                    nReq, nConv, now, mounted >>

\* App.tsx:901-921 for a call made by a user. When the response carries no
\* detection result, data.input_detection.score throws inside the try of line
\* 913 before saveHistoryEntry is called (caught at line 922, which raises the
\* sync warning) and again at line 934 (caught at line 947): nothing is stored
\* and nothing is appended. Otherwise saveHistoryEntry is called and awaited.
ConvertPersistRequested(c, r) ==
    /\ r.status = "ok"
    /\ c.uid # NoUser
    /\ ShowResponse(c, r)
    /\ IF r.det
       THEN /\ convs' = (convs \ { c }) \cup
                        { [c EXCEPT !.phase = "persist", !.humanized = r.text,
                                    !.inScore = r.inScore, !.outScore = r.outScore] }
            /\ toasts' = << >>
            /\ UNCHANGED << isConverting, isDetecting >>
       ELSE /\ convs' = convs \ { c }
            /\ toasts' = << ToastSyncFailed, ToastTypeError >>
            /\ isConverting' = FALSE
            /\ isDetecting' = FALSE
    /\ UNCHANGED << tone, detectionTimeout, timers, history, showHistory, user, detects, loads, deletes, clears, remote,
                    nReq, nConv, now, mounted >>

ConvertResponse(c, r) ==
    /\ c \in convs
    /\ c.phase = "rewrite"
    /\ \/ ConvertFailed(c, r)
       \/ ConvertSucceededAnonymous(c, r)
       \/ ConvertPersistRequested(c, r)

\* saveHistoryEntry, history.ts:27-45: addDoc stores the document and gives
\* its id.
SaveHistoryEntry(c, t) ==
    remote' = [remote EXCEPT ![c.uid] =
                  << Entry(FirestoreId(c.id), c.uid, c.text, c.humanized, c.tone,
                           c.inScore, c.outScore, t) >> \o @]

\* ConvertPersisted with the entry appended only when it was saved.
ConvertPersisted_LosesUnsaved(c, saved, t) ==
    /\ c \in convs
    /\ c.phase = "persist"
    /\ t >= now
    /\ now' = t
    /\ IF saved THEN SaveHistoryEntry(c, t) ELSE UNCHANGED remote
    /\ history' = IF saved
                  THEN << Entry(FirestoreId(c.id), c.uid, c.text, c.humanized,
                                c.tone, c.inScore, c.outScore, t) >> \o history
                  ELSE history
    /\ convs' = convs \ { c }
    /\ toasts' = IF saved THEN << ToastSuccess >>
                 ELSE << ToastSyncFailed, ToastSuccess >>
    /\ isConverting' = FALSE
    /\ isDetecting' = FALSE
    /\ UNCHANGED << outputVars, inputText, tone, inputAIAnalysis,
                    outputAIAnalysis, detectionTimeout, timers, showHistory, user,
                    detects, loads, deletes, clears, nReq, nConv, mounted >>

\* ConvertPersisted with the entry made from the text and the tone of the
\* current render instead of those the call was made with.
ConvertPersisted_ReadsState(c, saved, t) ==
    /\ c \in convs
    /\ c.phase = "persist"
    /\ t >= now
    /\ now' = t
    /\ IF saved THEN SaveHistoryEntry(c, t) ELSE UNCHANGED remote
    /\ LET id == IF saved THEN FirestoreId(c.id) ELSE LocalId(t)
           newEntry == Entry(id, c.uid, inputText, c.humanized, tone,
                             c.inScore, c.outScore, t)
       IN history' = << newEntry >> \o history
    /\ convs' = convs \ { c }
    /\ toasts' = IF saved THEN << ToastSuccess >>
                 ELSE << ToastSyncFailed, ToastSuccess >>
    /\ isConverting' = FALSE
    /\ isDetecting' = FALSE
    /\ UNCHANGED << outputVars, inputText, tone, inputAIAnalysis,
                    outputAIAnalysis, detectionTimeout, timers, showHistory, user, detects, loads, deletes, clears, nReq,
                    nConv, mounted >>

\* ConvertPersisted without the finally block of lines 950-953.
ConvertPersisted_NoFinally(c, saved, t) ==
    /\ c \in convs
    /\ c.phase = "persist"
    /\ t >= now
    /\ now' = t
    /\ IF saved THEN SaveHistoryEntry(c, t) ELSE UNCHANGED remote
    /\ LET id == IF saved THEN FirestoreId(c.id) ELSE LocalId(t)
           newEntry == Entry(id, c.uid, c.text, c.humanized, c.tone,
                             c.inScore, c.outScore, t)
       IN history' = << newEntry >> \o history
    /\ convs' = convs \ { c }
    /\ toasts' = IF saved THEN << ToastSuccess >>
                 ELSE << ToastSyncFailed, ToastSuccess >>
    /\ UNCHANGED << outputVars, inputText, tone, inputAIAnalysis,
                    outputAIAnalysis, detectionTimeout, timers, showHistory,
                    user, detects, loads, deletes, clears, nReq, nConv,
                    mounted, isConverting, isDetecting >>

\* ConvertPersisted with the entry put at the end of the local list.
ConvertPersisted_AtTail(c, saved, t) ==
    /\ c \in convs
    /\ c.phase = "persist"
    /\ t >= now
    /\ now' = t
    /\ IF saved THEN SaveHistoryEntry(c, t) ELSE UNCHANGED remote
    /\ LET id == IF saved THEN FirestoreId(c.id) ELSE LocalId(t)
           newEntry == Entry(id, c.uid, c.text, c.humanized, c.tone,
                             c.inScore, c.outScore, t)
       IN history' = history \o << newEntry >>
    /\ convs' = convs \ { c }
    /\ toasts' = IF saved THEN << ToastSuccess >>
                 ELSE << ToastSyncFailed, ToastSuccess >>
    /\ isConverting' = FALSE
    /\ isDetecting' = FALSE
    /\ UNCHANGED << outputVars, inputText, tone, inputAIAnalysis,
                    outputAIAnalysis, detectionTimeout, timers, showHistory, user, detects, loads, deletes, clears, nReq,
                    nConv, mounted >>

\* App.tsx:922-953: saveHistoryEntry returned (saved) or threw; the entry is
\* put at the head of the local list.
ConvertPersisted(c, saved, t) ==
    /\ c \in convs
    /\ c.phase = "persist"
    /\ t >= now
    /\ now' = t
    /\ IF saved THEN SaveHistoryEntry(c, t) ELSE UNCHANGED remote
    /\ LET id == IF saved THEN FirestoreId(c.id) ELSE LocalId(t)
           newEntry == Entry(id, c.uid, c.text, c.humanized, c.tone,
                             c.inScore, c.outScore, t)
       IN history' = << newEntry >> \o history
    /\ convs' = convs \ { c }
    /\ toasts' = IF saved THEN << ToastSuccess >>
                 ELSE << ToastSyncFailed, ToastSuccess >>
    /\ isConverting' = FALSE
    /\ isDetecting' = FALSE
    /\ UNCHANGED << outputVars, inputText, tone, inputAIAnalysis,
                    outputAIAnalysis, detectionTimeout, timers, showHistory, user, detects, loads, deletes, clears, nReq,
                    nConv, mounted >>

\* The await of line 914 taken apart: addDoc has stored the document
\* (history.ts:33-43) and its promise is not resolved yet; whatever reads the
\* remote store meanwhile sees the document.
SaveHistoryEntryStored(c, t) ==
    /\ c \in convs
    /\ c.phase = "persist"
    /\ t >= now
    /\ now' = t
    /\ SaveHistoryEntry(c, t)
    /\ convs' = (convs \ { c }) \cup { [c EXCEPT !.phase = "stored"] }
    /\ toasts' = << >>
    /\ UNCHANGED << outputVars, inputText, tone, isConverting, inputAIAnalysis,
                    outputAIAnalysis, isDetecting, detectionTimeout, timers,
                    history, showHistory, user, detects, loads, deletes,
                    clears, nReq, nConv, mounted >>

\* App.tsx:914-953 after it: saveHistoryEntry returns the id of the stored
\* document and the entry is put at the head of the local list.
SaveHistoryEntryReturned(c, t) ==
    /\ c \in convs
    /\ c.phase = "stored"
    /\ t >= now
    /\ now' = t
    /\ LET newEntry == Entry(FirestoreId(c.id), c.uid, c.text, c.humanized,
                             c.tone, c.inScore, c.outScore, t)
       IN history' = << newEntry >> \o history
    /\ convs' = convs \ { c }
    /\ toasts' = << ToastSuccess >>
    /\ isConverting' = FALSE
    /\ isDetecting' = FALSE
    /\ UNCHANGED << outputVars, inputText, tone, inputAIAnalysis,
                    outputAIAnalysis, detectionTimeout, timers, showHistory,
                    user, detects, loads, deletes, clears, remote, nReq,
                    nConv, mounted >>

-----------------------------------------------------------------------------
(* The tone selector, App.tsx:1530-1537 *)

SetTone(tn) ==
    /\ tone' = tn
    /\ toasts' = << >>
    /\ UNCHANGED << outputVars, inputText, isConverting, inputAIAnalysis,
                    outputAIAnalysis, isDetecting, detectionTimeout, timers,
                    history, showHistory, user, detects, convs, loads,
                    deletes, clears, remote, nReq, nConv, now, mounted >>

-----------------------------------------------------------------------------
(* The history panel, App.tsx:956-1005 and 1121-1127 *)

\* RestoreFromHistory without setDisplayedOutput and setIsAnimatingOutput
\* (lines 959 and 961).
RestoreFromHistory_KeepsDisplayed(entry) ==
    /\ showHistory
    /\ entry \in Range(history)
    /\ inputText' = entry.inputText
    /\ CommitOutput(entry.outputText, FALSE, displayedOutput,
                    isAnimatingOutput, animTimer)
    /\ tone' = entry.tone
    /\ inputAIAnalysis' = RestoredResult(entry.inputAIPercentage)
    /\ outputAIAnalysis' = RestoredResult(entry.outputAIPercentage)
    /\ showHistory' = FALSE
    /\ toasts' = << ToastRestored >>
    /\ UNCHANGED << isConverting, isDetecting, detectionTimeout, timers, history,
                    user, detects, convs, loads, deletes,
                    clears, remote, nReq, nConv, now, mounted >>

\* restoreFromHistory, App.tsx:956-968
RestoreFromHistory(entry) ==
    /\ showHistory
    /\ entry \in Range(history)
    /\ inputText' = entry.inputText
    /\ CommitOutput(entry.outputText, FALSE, entry.outputText, FALSE, animTimer)
    /\ tone' = entry.tone
    /\ inputAIAnalysis' = RestoredResult(entry.inputAIPercentage)
    /\ outputAIAnalysis' = RestoredResult(entry.outputAIPercentage)
    /\ showHistory' = FALSE
    /\ toasts' = << ToastRestored >>
    /\ UNCHANGED << isConverting, isDetecting, detectionTimeout, timers, history,
                    user, detects, convs, loads, deletes,
                    clears, remote, nReq, nConv, now, mounted >>

\* DeleteHistoryEntry with the entry taken off the list before the remote
\* delete is awaited.
DeleteHistoryEntry_Optimistic(id) ==
    /\ showHistory
    /\ id \in Ids(history)
    /\ user # NoUser => Pending < MaxPending
    /\ history' = FilterOut(history, { id })
    /\ IF user # NoUser
       THEN /\ deletes' = deletes \cup { [uid |-> user, id |-> id] }
            /\ toasts' = << >>
       ELSE /\ toasts' = << ToastDeleted >>
            /\ UNCHANGED deletes
    /\ UNCHANGED << outputVars, inputText, tone, isConverting, inputAIAnalysis,
                    outputAIAnalysis, isDetecting, detectionTimeout, timers,
                    showHistory, user, detects, convs, loads,
                    clears, remote, nReq, nConv, now, mounted >>

\* deleteHistoryEntry, App.tsx:970-974 and 981-982: with a user the remote
\* delete is issued and awaited; with none the entry is removed at once.
DeleteHistoryEntry(id) ==
    /\ showHistory
    /\ id \in Ids(history)
    /\ user # NoUser => Pending < MaxPending
    /\ IF user # NoUser
       THEN /\ deletes' = deletes \cup { [uid |-> user, id |-> id] }
            /\ toasts' = << >>
            /\ UNCHANGED history
       ELSE /\ history' = FilterOut(history, { id })
            /\ toasts' = << ToastDeleted >>
            /\ UNCHANGED deletes
    /\ UNCHANGED << outputVars, inputText, tone, isConverting, inputAIAnalysis,
                    outputAIAnalysis, isDetecting, detectionTimeout, timers,
                    showHistory, user, detects, convs, loads,
                    clears, remote, nReq, nConv, now, mounted >>

\* deleteHistoryEntryFromFirestore, history.ts:64-66: deleteDoc removes the
\* document (and succeeds when there is none).
DeleteFromFirestore(uid, ids) ==
    remote' = [remote EXCEPT ![uid] = FilterOut(@, ids)]

\* DeleteCompleted without the return of line 978.
DeleteCompleted_RemovesAnyway(d, deleted) ==
    /\ d \in deletes
    /\ deletes' = deletes \ { d }
    /\ IF deleted
       THEN /\ DeleteFromFirestore(d.uid, { d.id })
            /\ toasts' = << ToastDeleted >>
       ELSE /\ toasts' = << ToastDeleteFailed >>
            /\ UNCHANGED remote
    /\ history' = FilterOut(history, { d.id })
    /\ UNCHANGED << outputVars, inputText, tone, isConverting, inputAIAnalysis,
                    outputAIAnalysis, isDetecting, detectionTimeout, timers,
                    showHistory, user, detects, convs, loads, clears, nReq,
                    nConv, now, mounted >>

\* App.tsx:974-982: the remote delete returned (deleted) or threw.
DeleteCompleted(d, deleted) ==
    /\ d \in deletes
    /\ deletes' = deletes \ { d }
    /\ IF deleted
       THEN /\ DeleteFromFirestore(d.uid, { d.id })
            /\ history' = FilterOut(history, { d.id })
            /\ toasts' = << ToastDeleted >>
       ELSE /\ toasts' = << ToastDeleteFailed >>
            /\ UNCHANGED << remote, history >>
    /\ UNCHANGED << outputVars, inputText, tone, isConverting, inputAIAnalysis,
                    outputAIAnalysis, isDetecting, detectionTimeout, timers,
                    showHistory, user, detects, convs, loads,
                    clears, nReq, nConv, now, mounted >>

\* ClearAllHistory without the test of history.length at lines 986-989.
ClearAllHistory_NoEmptyTest ==
    /\ showHistory
    /\ user # NoUser => Pending < MaxPending
    /\ IF user # NoUser
       THEN /\ clears' = clears \cup { [uid |-> user, ids |-> Ids(history)] }
            /\ toasts' = << >>
            /\ UNCHANGED << history, showHistory >>
       ELSE /\ history' = << >>
            /\ showHistory' = FALSE
            /\ toasts' = << ToastCleared >>
            /\ UNCHANGED clears
    /\ UNCHANGED << outputVars, inputText, tone, isConverting, inputAIAnalysis,
                    outputAIAnalysis, isDetecting, detectionTimeout, timers,
                    user, detects, convs, loads, deletes,
                    remote, nReq, nConv, now, mounted >>

\* clearAllHistory, App.tsx:985-994 and 1002-1004: nothing to clear, or the
\* remote deletes of the entries of this render are issued and awaited, or
\* (no user) the list is emptied at once.  The button of line 2301 is drawn
\* in the panel, and only for a list that is not empty (line 2298); the
\* branch of line 986 is the call made with an empty list all the same.
ClearAllHistory ==
    /\ showHistory
    /\ (history # << >> /\ user # NoUser) => Pending < MaxPending
    /\ IF history = << >>
       THEN /\ showHistory' = FALSE
            /\ toasts' = << >>
            /\ UNCHANGED << history, clears >>
       ELSE IF user # NoUser
       THEN /\ clears' = clears \cup { [uid |-> user, ids |-> Ids(history)] }
            /\ toasts' = << >>
            /\ UNCHANGED << history, showHistory >>
       ELSE /\ history' = << >>
            /\ showHistory' = FALSE
            /\ toasts' = << ToastCleared >>
            /\ UNCHANGED clears
    /\ UNCHANGED << outputVars, inputText, tone, isConverting, inputAIAnalysis,
                    outputAIAnalysis, isDetecting, detectionTimeout, timers,
                    user, detects, convs, loads, deletes,
                    remote, nReq, nConv, now, mounted >>

\* App.tsx:994-1004: Promise.all settled; the deletes of the ids in deleted
\* succeeded, the others threw.
ClearCompleted(c, deleted) ==
    /\ c \in clears
    /\ deleted \subseteq c.ids
    /\ clears' = clears \ { c }
    /\ DeleteFromFirestore(c.uid, deleted)
    /\ IF deleted = c.ids
       THEN /\ history' = << >>
            /\ showHistory' = FALSE
            /\ toasts' = << ToastCleared >>
       ELSE /\ toasts' = << ToastClearFailed >>
            /\ UNCHANGED << history, showHistory >>
    /\ UNCHANGED << outputVars, inputText, tone, isConverting, inputAIAnalysis,
                    outputAIAnalysis, isDetecting, detectionTimeout, timers,
                    user, detects, convs, loads, deletes,
                    nReq, nConv, now, mounted >>

\* toggleHistoryPanel, App.tsx:1121-1127
ToggleHistoryPanel ==
    /\ IF user = NoUser
       THEN /\ toasts' = << ToastSignInFirst >>
            /\ UNCHANGED showHistory
       ELSE /\ showHistory' = ~showHistory
            /\ toasts' = << >>
    /\ UNCHANGED << outputVars, inputText, tone, isConverting, inputAIAnalysis,
                    outputAIAnalysis, isDetecting, detectionTimeout, timers, history,
                    user, detects, convs, loads, deletes,
                    clears, remote, nReq, nConv, now, mounted >>

-----------------------------------------------------------------------------
(* Tear-down of the component *)

\* Unmount without the clean-up of the animation effect.
Unmount_NoCleanup ==
    /\ mounted
    /\ mounted' = FALSE
    /\ toasts' = << >>
    /\ UNCHANGED << outputText, displayedOutput, shouldAnimateOutput,
                    isAnimatingOutput, effectPending, animTimer, inputText,
                    tone, isConverting, inputAIAnalysis, outputAIAnalysis,
                    isDetecting, detectionTimeout, timers, history,
                    showHistory, user, detects, convs, loads, deletes, clears,
                    remote, nReq, nConv, now >>

\* The clean-up of the animation effect (App.tsx:1231-1236) clears the reveal
\* timer and the identity listener is unsubscribed (line 1170).  No clean-up
\* clears the debounce timer of handleInputChange.
Unmount ==
    /\ mounted
    /\ mounted' = FALSE
    /\ animTimer' = NoAnim
    /\ toasts' = << >>
    /\ UNCHANGED << outputText, displayedOutput, shouldAnimateOutput,
                    isAnimatingOutput, effectPending, inputText, tone,
                    isConverting, inputAIAnalysis, outputAIAnalysis,
                    isDetecting, detectionTimeout, timers, history,
                    showHistory, user, detects, convs, loads, deletes, clears,
                    remote, nReq, nConv, now >>

-----------------------------------------------------------------------------
(* The identity listener, App.tsx:1149-1171 *)

\* AuthStateChanged without setHistory([]) at line 1167.
AuthStateChanged_KeepsHistory(u) ==
    /\ u # NoUser => Pending < MaxPending
    /\ u # NoUser => \A l \in loads : l.uid # u
    /\ user' = u
    /\ IF u # NoUser
       THEN loads' = loads \cup { [uid |-> u] }
       ELSE UNCHANGED loads
    /\ toasts' = << >>
    /\ UNCHANGED << outputVars, inputText, tone, isConverting, inputAIAnalysis,
                    outputAIAnalysis, isDetecting, detectionTimeout, timers,
                    history, showHistory, detects, convs, deletes, clears,
                    remote, nReq, nConv, now, mounted >>

\* The onAuthStateChanged callback up to its await: a user signed in and the
\* fetch of the history is issued, or nobody is signed in.  One fetch per
\* user is in flight at a time.
AuthStateChanged(u) ==
    /\ u # NoUser => Pending < MaxPending
    /\ u # NoUser => \A l \in loads : l.uid # u
    /\ user' = u
    /\ IF u # NoUser
       THEN /\ loads' = loads \cup { [uid |-> u] }
            /\ UNCHANGED history
       ELSE /\ history' = << >>
            /\ UNCHANGED loads
    /\ toasts' = << >>
    /\ UNCHANGED << outputVars, inputText, tone, isConverting, inputAIAnalysis,
                    outputAIAnalysis, isDetecting, detectionTimeout, timers,
                    showHistory, detects, convs, deletes, clears, remote, nReq,
                    nConv, now, mounted >>

\* HistoryLoaded with the fetched entries put before the list instead of
\* replacing it.
HistoryLoaded_Merges(l, loaded) ==
    /\ l \in loads
    /\ loads' = loads \ { l }
    /\ IF loaded
       THEN /\ history' = MapEntries(FetchHistoryEntries(l.uid, HistoryPageSize))
                           \o history
            /\ toasts' = << >>
       ELSE /\ toasts' = << ToastLoadFailed >>
            /\ UNCHANGED history
    /\ UNCHANGED << outputVars, inputText, tone, isConverting, inputAIAnalysis,
                    outputAIAnalysis, isDetecting, detectionTimeout, timers,
                    showHistory, user, detects, convs, deletes, clears, remote,
                    nReq, nConv, now, mounted >>

\* App.tsx:1156-1164: fetchHistoryEntries returned (loaded) or threw.
HistoryLoaded(l, loaded) ==
    /\ l \in loads
    /\ loads' = loads \ { l }
    /\ IF loaded
       THEN /\ history' = MapEntries(FetchHistoryEntries(l.uid, HistoryPageSize))
            /\ toasts' = << >>
       ELSE /\ toasts' = << ToastLoadFailed >>
            /\ UNCHANGED history
    /\ UNCHANGED << outputVars, inputText, tone, isConverting, inputAIAnalysis,
                    outputAIAnalysis, isDetecting, detectionTimeout, timers,
                    showHistory, user, detects, convs, deletes, clears, remote,
                    nReq, nConv, now, mounted >>

-----------------------------------------------------------------------------
(* The component after its first render *)

Init ==
    /\ inputText = TxtEmpty
    /\ outputText = << >>
    /\ displayedOutput = << >>
    /\ shouldAnimateOutput = FALSE
    /\ isAnimatingOutput = FALSE
    /\ tone = "natural"
    /\ isConverting = FALSE
    /\ inputAIAnalysis = NoAnalysis
    /\ outputAIAnalysis = NoAnalysis
    /\ isDetecting = FALSE
    /\ detectionTimeout = NoTimeout
    /\ timers = { }
    /\ history = << >>
    /\ showHistory = FALSE
    /\ user = NoUser
    /\ animTimer = NoAnim
    /\ effectPending = FALSE
    /\ detects = { }
    /\ convs = { }
    /\ loads = { }
    /\ deletes = { }
    /\ clears = { }
    /\ remote = [u \in Users |-> IF u = "u1" THEN << SeedDoc >> ELSE << >>]
    /\ nReq = 0
    /\ nConv = 0
    /\ now = 0
    /\ mounted = TRUE
    /\ toasts = << >>

-----------------------------------------------------------------------------
(* Specifications.  The three sub-systems share the state, Init and the     *)
(* actions above; each is checked with the actions that write the          *)
(* variables its properties are about, and with the environment (the text  *)
(* typed, the identities notified) drawn from the sets named in it.        *)

\* The conversion orchestrator and the progressive revealer: every action
\* that writes the output variables, with u1 signing in and out.
ConvertTexts == { TxtEmpty, TxtSpaces, TxtA }

\* An event handler or the continuation of a call is served when the
\* component is mounted and no run of the animation effect is due.  A timer
\* needs no component.
Ready == mounted /\ ~effectPending

Next ==
    \/ OutputEffectRuns
    \/ Ready /\ \E text \in ConvertTexts : text # inputText /\ HandleInputChange(text)
    \/ Ready /\ ( ConvertRejected \/ ( nConv < MaxConvBase /\ ConvertStarted ) )
    \/ Ready /\ \E c \in convs, r \in Responses : ConvertResponse(c, r)
    \/ Ready /\ \E c \in convs, saved \in BOOLEAN, t \in 0..MaxNow : ConvertPersisted(c, saved, t)
    \/ ~effectPending /\ AnimateTick
    \/ Ready /\ \E entry \in Range(history) : RestoreFromHistory(entry)
    \/ Ready /\ ToggleHistoryPanel
    \/ Ready /\ \E u \in { "u1", NoUser } : AuthStateChanged(u)
    \/ Ready /\ \E l \in loads, loaded \in BOOLEAN : HistoryLoaded(l, loaded)
    \/ ~effectPending /\ Unmount

Spec == Init /\ [][Next]_vars

\* The history store: every action that writes history, user or the remote
\* collections, with both users, and TxtA as the text converted.
NextHistory ==
    \/ OutputEffectRuns
    \/ Ready /\ inputText # TxtA /\ HandleInputChange(TxtA)
    \/ Ready /\ ( ConvertRejected \/ ( nConv < MaxConvBase /\ ConvertStarted ) )
    \/ Ready /\ \E c \in convs, r \in Responses : ConvertResponse(c, r)
    \/ Ready /\ \E c \in convs, saved \in BOOLEAN, t \in 0..MaxNow : ConvertPersisted(c, saved, t)
    \/ Ready /\ \E id \in Ids(history) : DeleteHistoryEntry(id)
    \/ Ready /\ \E d \in deletes, deleted \in BOOLEAN : DeleteCompleted(d, deleted)
    \/ Ready /\ ClearAllHistory
    \/ Ready /\ \E c \in clears : \E deleted \in SUBSET c.ids : ClearCompleted(c, deleted)
    \/ Ready /\ ToggleHistoryPanel
    \/ Ready /\ \E u \in Users \cup { NoUser } : AuthStateChanged(u)
    \/ Ready /\ \E l \in loads, loaded \in BOOLEAN : HistoryLoaded(l, loaded)

SpecHistory == Init /\ [][NextHistory]_vars

\* The debounced analyzer of the input: the text changes, the debounce
\* timer and the detection requests, with the events the analyzer shares the
\* input with: a conversion made by nobody, and the tear-down.
NextAnalyzer ==
    \/ OutputEffectRuns
    \/ Ready /\ \E text \in InTexts : text # inputText /\ HandleInputChange(text)
    \/ ~effectPending /\ DetectionTimerFires
    \/ ~effectPending /\ \E d \in detects, ok \in BOOLEAN, score \in Scores : DetectionResponse(d, ok, score)
    \/ Ready /\ ( ConvertRejected \/ ( nConv < MaxConvBase /\ ConvertStarted ) )
    \/ Ready /\ \E c \in convs, r \in Responses : ConvertResponse(c, r)
    \/ ~effectPending /\ AnimateTick
    \/ ~effectPending /\ Unmount

SpecAnalyzer == Init /\ [][NextAnalyzer]_vars

\* The load of the history: u2 stored one document more than a page holds in
\* earlier sessions (newest first), and identities come and go while
\* conversions of TxtA add to the list.
StoredDoc(i) == Entry(FirestoreId(0 - i), "u2", TxtA, OutX, "natural", 50, 50, 0 - i)

InitLoad ==
    /\ inputText = TxtEmpty
    /\ outputText = << >>
    /\ displayedOutput = << >>
    /\ shouldAnimateOutput = FALSE
    /\ isAnimatingOutput = FALSE
    /\ tone = "natural"
    /\ isConverting = FALSE
    /\ inputAIAnalysis = NoAnalysis
    /\ outputAIAnalysis = NoAnalysis
    /\ isDetecting = FALSE
    /\ detectionTimeout = NoTimeout
    /\ timers = { }
    /\ history = << >>
    /\ showHistory = FALSE
    /\ user = NoUser
    /\ animTimer = NoAnim
    /\ effectPending = FALSE
    /\ detects = { }
    /\ convs = { }
    /\ loads = { }
    /\ deletes = { }
    /\ clears = { }
    /\ remote = [u \in Users |->
                   IF u = "u1" THEN << SeedDoc >>
                   ELSE [i \in 1..(HistoryPageSize + 1) |-> StoredDoc(i)]]
    /\ nReq = 0
    /\ nConv = 0
    /\ now = 0
    /\ mounted = TRUE
    /\ toasts = << >>

NextLoad ==
    \/ OutputEffectRuns
    \/ Ready /\ inputText # TxtA /\ HandleInputChange(TxtA)
    \/ Ready /\ ( ConvertRejected \/ ( nConv < MaxConvBase /\ ConvertStarted ) )
    \/ Ready /\ \E c \in convs, r \in Responses : ConvertResponse(c, r)
    \/ Ready /\ \E c \in convs, saved \in BOOLEAN, t \in 0..MaxNow : ConvertPersisted(c, saved, t)
    \/ Ready /\ ToggleHistoryPanel
    \/ Ready /\ \E u \in Users \cup { NoUser } : AuthStateChanged(u)
    \/ Ready /\ \E l \in loads, loaded \in BOOLEAN : HistoryLoaded(l, loaded)

SpecLoad == InitLoad /\ [][NextLoad]_vars

\* The progressive revealer with a second conversion: u1 signs in, converts
\* TxtA up to MaxConv times, restores entries and the component is torn
\* down, at any point of a reveal.  The other specifications stop at
\* MaxConvBase conversions.
NextReveal ==
    \/ OutputEffectRuns
    \/ Ready /\ inputText # TxtA /\ HandleInputChange(TxtA)
    \/ Ready /\ HandleConvert
    \/ Ready /\ \E c \in convs, r \in Responses : ConvertResponse(c, r)
    \/ Ready /\ \E c \in convs, saved \in BOOLEAN, t \in 0..MaxNow : ConvertPersisted(c, saved, t)
    \/ ~effectPending /\ AnimateTick
    \/ Ready /\ \E entry \in Range(history) : RestoreFromHistory(entry)
    \/ Ready /\ ToggleHistoryPanel
    \/ Ready /\ user = NoUser /\ AuthStateChanged("u1")
    \/ Ready /\ \E l \in loads, loaded \in BOOLEAN : HistoryLoaded(l, loaded)
    \/ ~effectPending /\ Unmount

SpecReveal == Init /\ [][NextReveal]_vars

\* A timer that is set expires (setTimeout, lines 1222 and 1229) and an
\* effect that is due runs after the commit (line 1195); the handlers wait
\* for the user and the network, so nothing makes them happen.
SpecRevealFair ==
    /\ SpecReveal
    /\ WF_vars(~effectPending /\ AnimateTick)
    /\ WF_vars(OutputEffectRuns)

\* The scoring engine on every text of at most MaxScoreLen characters of
\* ScoreAlphabet.
ScoreAlphabet == { "a", " ", ".", "?" }

ScoreTexts == UNION { [1..n -> ScoreAlphabet] : n \in 0..MaxScoreLen }

InitScoring ==
    /\ inputText \in ScoreTexts
    /\ outputText = << >>
    /\ displayedOutput = << >>
    /\ shouldAnimateOutput = FALSE
    /\ isAnimatingOutput = FALSE
    /\ tone = "natural"
    /\ isConverting = FALSE
    /\ inputAIAnalysis = NoAnalysis
    /\ outputAIAnalysis = NoAnalysis
    /\ isDetecting = FALSE
    /\ detectionTimeout = NoTimeout
    /\ timers = { }
    /\ history = << >>
    /\ showHistory = FALSE
    /\ user = NoUser
    /\ animTimer = NoAnim
    /\ effectPending = FALSE
    /\ detects = { }
    /\ convs = { }
    /\ loads = { }
    /\ deletes = { }
    /\ clears = { }
    /\ remote = [u \in Users |-> << >>]
    /\ nReq = 0
    /\ nConv = 0
    /\ now = 0
    /\ mounted = TRUE
    /\ toasts = << >>

NextScoring == ScoreInput

SpecScoring == InitScoring /\ [][NextScoring]_vars

\* The clear of a history longer than a page: the stored documents of
\* InitLoad, with Promise.all (line 994) either deleting every document it
\* was given or rejecting before any was deleted.
ClearOutcomes(c) == { c.ids, { } }

NextClear ==
    \/ OutputEffectRuns
    \/ Ready /\ inputText # TxtA /\ HandleInputChange(TxtA)
    \/ Ready /\ ( ConvertRejected \/ ( nConv < MaxConvBase /\ ConvertStarted ) )
    \/ Ready /\ \E c \in convs, r \in Responses : ConvertResponse(c, r)
    \/ Ready /\ \E c \in convs, saved \in BOOLEAN, t \in 0..MaxNow : ConvertPersisted(c, saved, t)
    \/ Ready /\ ClearAllHistory
    \/ Ready /\ \E c \in clears : \E deleted \in ClearOutcomes(c) : ClearCompleted(c, deleted)
    \/ Ready /\ ToggleHistoryPanel
    \/ Ready /\ \E u \in Users \cup { NoUser } : AuthStateChanged(u)
    \/ Ready /\ \E l \in loads, loaded \in BOOLEAN : HistoryLoaded(l, loaded)

SpecClear == InitLoad /\ [][NextClear]_vars

\* The history store with the save of a conversion in two steps, so that a
\* load can read the remote store between them.
NextIds ==
    \/ OutputEffectRuns
    \/ Ready /\ inputText # TxtA /\ HandleInputChange(TxtA)
    \/ Ready /\ ( ConvertRejected \/ ( nConv < MaxConvBase /\ ConvertStarted ) )
    \/ Ready /\ \E c \in convs, r \in Responses : ConvertResponse(c, r)
    \/ Ready /\ \E c \in convs, saved \in BOOLEAN, t \in 0..MaxNow : ConvertPersisted(c, saved, t)
    \/ Ready /\ \E c \in convs, t \in 0..MaxNow : SaveHistoryEntryStored(c, t)
    \/ Ready /\ \E c \in convs, t \in 0..MaxNow : SaveHistoryEntryReturned(c, t)
    \/ Ready /\ \E id \in Ids(history) : DeleteHistoryEntry(id)
    \/ Ready /\ \E d \in deletes, deleted \in BOOLEAN : DeleteCompleted(d, deleted)
    \/ Ready /\ ClearAllHistory
    \/ Ready /\ \E c \in clears : \E deleted \in ClearOutcomes(c) : ClearCompleted(c, deleted)
    \/ Ready /\ ToggleHistoryPanel
    \/ Ready /\ user = NoUser /\ AuthStateChanged("u1")
    \/ Ready /\ \E l \in loads, loaded \in BOOLEAN : HistoryLoaded(l, loaded)

SpecIds == Init /\ [][NextIds]_vars

\* A restore among detections: u1 signs in, the stored record (input TxtA) is
\* loaded, and the user types TxtB or empties the field, so that the input is
\* TxtA only after a restore that no typing followed.
RestoreTexts == { TxtEmpty, TxtB }

NextRestore ==
    \/ OutputEffectRuns
    \/ Ready /\ \E text \in RestoreTexts : text # inputText /\ HandleInputChange(text)
    \/ ~effectPending /\ DetectionTimerFires
    \/ ~effectPending /\ \E d \in detects, ok \in BOOLEAN, score \in Scores : DetectionResponse(d, ok, score)
    \/ Ready /\ \E entry \in Range(history) : RestoreFromHistory(entry)
    \/ Ready /\ ToggleHistoryPanel
    \/ Ready /\ user = NoUser /\ AuthStateChanged("u1")
    \/ Ready /\ \E l \in loads, loaded \in BOOLEAN : HistoryLoaded(l, loaded)

SpecRestore == Init /\ [][NextRestore]_vars

\* The collaborators answer: the rewrite request gets its response or its
\* error (the await of line 887) and saveHistoryEntry returns or throws (the
\* await of line 914), and an effect that is due runs.  A continuation waits
\* only while an effect is due, which the user's actions can make happen
\* again and again; the event loop runs the continuation between two of
\* them, hence the strong fairness.  Nothing makes the user act.
SpecConvertFair ==
    /\ SpecReveal
    /\ WF_vars(OutputEffectRuns)
    /\ SF_vars(Ready /\ \E c \in convs, r \in Responses : ConvertResponse(c, r))
    /\ SF_vars(Ready /\ \E c \in convs, saved \in BOOLEAN, t \in 0..MaxNow :
                          ConvertPersisted(c, saved, t))

\* Calls of handleConvert that overlap: the function is called whatever
\* isConverting is, by u1, with two texts and two tones, and the rewrite
\* collaborator answers each request with a text that tells the text it
\* was asked to rewrite and with scores that tell the tone.
OverlapTones == { "natural", "casual" }

RewriteOf(text, tn) ==
    [status |-> "ok", detail |-> FALSE,
     text |-> IF text = TxtA THEN OutX ELSE OutZ, det |-> TRUE,
     inScore |-> IF tn = "casual" THEN 60 ELSE 80,
     outScore |-> IF tn = "casual" THEN 40 ELSE 20]

NextOverlap ==
    \/ OutputEffectRuns
    \/ Ready /\ \E text \in { TxtA, TxtB } : text # inputText /\ HandleInputChange(text)
    \/ Ready /\ \E tn \in OverlapTones : tn # tone /\ SetTone(tn)
    \/ Ready /\ ConvertCalled
    \/ Ready /\ \E c \in convs : ConvertResponse(c, RewriteOf(c.text, c.tone))
    \/ Ready /\ \E c \in convs, saved \in BOOLEAN, t \in 0..MaxNow : ConvertPersisted(c, saved, t)
    \/ ~effectPending /\ AnimateTick
    \/ Ready /\ user = NoUser /\ AuthStateChanged("u1")
    \/ Ready /\ \E l \in loads, loaded \in BOOLEAN : HistoryLoaded(l, loaded)

SpecOverlap == Init /\ [][NextOverlap]_vars

-----------------------------------------------------------------------------
(* Properties *)

allButToasts == << inputText, outputText, displayedOutput, shouldAnimateOutput,
                   isAnimatingOutput, tone, isConverting, inputAIAnalysis,
                   outputAIAnalysis, isDetecting, detectionTimeout, timers, history,
                   showHistory, user, animTimer, effectPending, detects,
                   convs, loads, deletes, clears, remote, nReq, nConv, now, mounted >>

\* C1: the result of a detection request never replaces the result of a
\* request that was issued after it: when requests A then B are issued and
\* A's response arrives after B's, the input analysis stays B's.
C1_StaleDetectionDiscarded ==
    [][ ( /\ inputAIAnalysis.kind = "detect"
          /\ inputAIAnalysis'.kind = "detect"
          /\ inputAIAnalysis' # inputAIAnalysis )
        => inputAIAnalysis'.src > inputAIAnalysis.src ]_vars

\* C2: in every reachable state every record of the local history list
\* belongs to the current identity; the list is empty when there is none.
C2_HistoryOfCurrentIdentity ==
    \A i \in DOMAIN history : history[i].owner = user

\* C3: in every committed render displayedOutput is a prefix of outputText:
\* a strict one while the reveal is running, outputText itself once no reveal
\* is running or due; it never holds text of a target that was replaced.
C3_DisplayedIsPrefix ==
    /\ IsPrefix(displayedOutput, outputText)
    /\ isAnimatingOutput => displayedOutput # outputText
    /\ (~isAnimatingOutput /\ ~shouldAnimateOutput) => displayedOutput = outputText

\* C4: when saveHistoryEntry fails for a call made by a user, the conversion
\* still succeeds: the local list grows by exactly one, the new record is at
\* its head with a locally generated id, and the sync warning is raised.
C4_UnsyncedStillAppended ==
    [][ \A c \in convs :
          ( \E t \in 0..MaxNow : ConvertPersisted(c, FALSE, t) )
          => /\ c.uid # NoUser
             /\ Len(history') = Len(history) + 1
             /\ Tail(history') = history
             /\ Head(history').id.src = "local"
             /\ Head(history').inputText = c.text
             /\ Head(history').outputText = c.humanized
             /\ ToastSyncFailed \in Range(toasts')
             /\ ToastSuccess \in Range(toasts')
             /\ ~isConverting' ]_vars

C4_Witness ==
    /\ ToastSyncFailed \in Range(toasts)
    /\ Len(history) = 2
    /\ Head(history).id.src = "local"
    /\ user # NoUser

\* C5: when the remote delete fails for a call made by a user, the local
\* history list is left unchanged and an error is raised.
C5_FailedDeleteKeepsList ==
    [][ \A d \in deletes :
          DeleteCompleted(d, FALSE)
          => /\ history' = history
             /\ toasts' = << ToastDeleteFailed >> ]_vars

C5_Witness ==
    /\ toasts = << ToastDeleteFailed >>
    /\ history # << >>
    /\ user # NoUser

\* C6: when clearAllHistory fails, the local list is left unchanged, an error
\* is raised, and no record of the list that was stored remotely has been
\* deleted remotely; the list is emptied only when every delete succeeded.
C6_ClearAllOrNothing ==
    [][ \A c \in clears :
          ( \E deleted \in SUBSET c.ids :
               deleted # c.ids /\ ClearCompleted(c, deleted) )
          => /\ history' = history
             /\ toasts' = << ToastClearFailed >>
             /\ \A i \in DOMAIN history' :
                   history'[i].id \in Ids(remote[c.uid])
                   => history'[i].id \in Ids(remote'[c.uid]) ]_vars

\* C7: a response that is ok with an empty or missing humanized_text starts
\* no persist call and appends no record: no call awaits saveHistoryEntry
\* with an empty text and no record of the list has an empty outputText.
C7_EmptyResponseRejected ==
    /\ \A c \in convs : c.phase = "persist" => c.humanized # << >>
    /\ \A i \in DOMAIN history : history[i].outputText # << >>

\* C8: handleConvert with a blank input raises the validation error and
\* changes nothing else: no request is issued and no state changes.
C8_BlankInputRejected ==
    [][ ( Trim(inputText) = << >> /\ HandleConvert )
        => /\ toasts' = << ToastEmptyInput >>
           /\ UNCHANGED allButToasts ]_vars

C8_Witness ==
    /\ toasts = << ToastEmptyInput >>
    /\ inputText = TxtSpaces

C10_OneRecordPerConversion ==
    [][ /\ \A c \in convs :
             ( c \notin convs' /\ ToastSuccess \in Range(toasts') )
             => IF c.uid # NoUser
                THEN /\ Len(history') = Len(history) + 1
                     /\ Tail(history') = history
                     /\ Head(history').owner = c.uid
                ELSE /\ history' = history
                     /\ remote' = remote
                     /\ c.phase = "rewrite"
        /\ \A c \in convs' : c.phase = "persist" => c.uid # NoUser ]_vars

C10_Witness ==
    /\ toasts = << ToastSuccess >>
    /\ Len(history) = 2
    /\ Head(history).id = FirestoreId(1)

\* C11: while the input is too short for detection, the input analysis is
\* not a detection result: the response to a request issued before the change
\* that made the input too short is not applied.
C11_ShortInputHasNoDetection ==
    (mounted /\ Len(Trim(inputText)) < MinDetectLength)
    => inputAIAnalysis.kind # "detect"

\* C12: a text change whose trimmed length is below 10 leaves no debounce
\* timer armed, sets the input analysis to none and isDetecting to false,
\* and issues no detection request.
C12_ShortInputClears ==
    [][ \A text \in InTexts :
          ( Len(Trim(text)) < MinDetectLength /\ HandleInputChange(text) )
          => /\ timers' = { }
             /\ inputAIAnalysis' = NoAnalysis
             /\ ~isDetecting'
             /\ detects' = detects
             /\ nReq' = nReq ]_vars

\* A timer was set and no request was ever issued: the change to a text of
\* nine characters between two spaces cancelled it.
C12_Witness ==
    /\ inputText = TxtNine
    /\ detectionTimeout # NoTimeout
    /\ timers = { }
    /\ nReq = 0
    /\ inputAIAnalysis = NoAnalysis
    /\ ~isDetecting

C14_ConversionInvalidatesDetection ==
    [][ /\ ~mounted => nReq' = nReq
        /\ \A d \in detects :
              ( /\ d \notin detects'
                /\ inputAIAnalysis'.kind = "detect"
                /\ inputAIAnalysis'.src = d.req
                /\ inputAIAnalysis' # inputAIAnalysis )
              => d.conv = nConv ]_vars

\* C15: when somebody signs in while nobody was signed in, the fetch of
\* their history is issued; when a fetch succeeds the local list becomes the
\* stored documents of that user, newest first and at most 20 of them,
\* whatever the list held before.
C15_LoadReplacesList ==
    [][ /\ \A u \in Users :
              ( user = NoUser /\ AuthStateChanged(u) )
              => user' = u /\ [uid |-> u] \in loads'
        /\ \A l \in loads :
              HistoryLoaded(l, TRUE)
              => LET stored == remote[l.uid]
                     n == IF Len(stored) < HistoryPageSize THEN Len(stored)
                          ELSE HistoryPageSize
                 IN /\ Len(history') = n
                    /\ \A i \in 1..n : history'[i] = stored[i] ]_vars

\* u2's list after the load: a full page of the documents stored, which are
\* more than a page.
C15_Witness ==
    /\ user = "u2"
    /\ loads = { }
    /\ Len(remote["u2"]) > HistoryPageSize
    /\ Len(history) = HistoryPageSize
    /\ history[1] = StoredDoc(1)

\* C16: when the identity changes from a user to nobody, the local list
\* becomes empty, no remote delete is issued and the stored documents are
\* unchanged.
C16_SignOutClearsLocalOnly ==
    [][ ( user # NoUser /\ AuthStateChanged(NoUser) )
        => /\ user' = NoUser
           /\ history' = << >>
           /\ remote' = remote
           /\ deletes' = deletes
           /\ clears' = clears ]_vars

\* Nobody is signed in and the list is empty while the two documents of u1,
\* one of them stored by a conversion of this session, are still there.
C16_Witness ==
    /\ user = NoUser
    /\ history = << >>
    /\ showHistory
    /\ Len(remote["u1"]) = 2
    /\ loads = { }

\* C17: when outputText changes while a reveal is in progress, the timer of
\* the old reveal is cancelled by the handler or by the run of the effect
\* that comes before anything else; a reveal the effect starts has a fresh
\* timer for the text of the render; a timer that can expire is the one of
\* the reveal of the current outputText, in step with what is displayed, and
\* what its callback displays is a prefix of that text, never a mix of an
\* old text and a new one.
C17_OldRevealCancelled ==
    [][ /\ ( animTimer.pending /\ outputText' # outputText )
           => ( ~animTimer'.pending \/ effectPending' )
        /\ OutputEffectRuns
           => animTimer' \in { NoAnim, PendingAnim(outputText, 0) }
        /\ ( animTimer'.pending /\ ~effectPending' )
           => /\ animTimer'.target = outputText'
              /\ shouldAnimateOutput' /\ isAnimatingOutput'
              /\ displayedOutput' = Slice0(outputText', animTimer'.index)
        /\ AnimateTick
           => /\ animTimer.target = outputText
              /\ IsPrefix(displayedOutput', outputText')
              /\ Len(displayedOutput') = animTimer.index + 1 ]_vars

\* An entry with another output was restored after the first tick of the
\* reveal of OutZ: the render is committed and the effect is due.
C17_Witness ==
    /\ effectPending
    /\ animTimer.pending
    /\ animTimer.target = OutZ
    /\ animTimer.index = 1
    /\ outputText = OutX

\* C18: every expiry of the reveal timer extends what is displayed by
\* exactly one character of outputText, the last one clears both flags and
\* leaves no timer; and a reveal of a text settles, with the whole text
\* displayed, the flags cleared and no timer pending, unless outputText
\* changes or the component is torn down first.
RevealSettled(S) ==
    /\ outputText = S
    /\ displayedOutput = S
    /\ ~isAnimatingOutput
    /\ ~shouldAnimateOutput
    /\ ~animTimer.pending
    /\ ~effectPending

C18_RevealSettles ==
    /\ [][ ( ~effectPending /\ AnimateTick )
           => /\ Len(displayedOutput') = Len(displayedOutput) + 1
              /\ IsPrefix(displayedOutput, displayedOutput')
              /\ IsPrefix(displayedOutput', outputText)
              /\ outputText' = outputText
              /\ IF displayedOutput' = outputText
                 THEN /\ ~isAnimatingOutput' /\ ~shouldAnimateOutput'
                      /\ ~animTimer'.pending
                 ELSE /\ isAnimatingOutput' /\ shouldAnimateOutput'
                      /\ animTimer'.pending ]_vars
    /\ \A S \in OutTexts :
          ( outputText = S /\ shouldAnimateOutput )
          ~> ( RevealSettled(S) \/ outputText # S \/ ~mounted )

\* The reveal of OutZ after its first tick.
C18_Witness ==
    /\ ~effectPending
    /\ mounted
    /\ animTimer.pending
    /\ animTimer.index = 1
    /\ outputText = OutZ
    /\ displayedOutput = Slice0(OutZ, 1)
    /\ isAnimatingOutput

\* C19: restoring an entry, whatever the revealer is doing, displays the
\* whole output of the entry in the same commit with both flags false; a
\* reveal timer still set then is cleared by the run of the effect that
\* follows, which leaves the whole text displayed and the flag false.
C19_RestoreShowsWholeText ==
    [][ /\ \A entry \in Range(history) :
              RestoreFromHistory(entry)
              => /\ outputText' = entry.outputText
                 /\ displayedOutput' = entry.outputText
                 /\ ~isAnimatingOutput'
                 /\ ~shouldAnimateOutput'
                 /\ animTimer'.pending => effectPending'
        /\ ( ~shouldAnimateOutput /\ OutputEffectRuns )
           => /\ displayedOutput' = outputText
              /\ ~isAnimatingOutput'
              /\ ~animTimer'.pending
              /\ ~effectPending' ]_vars

\* The commit of a restore made during a reveal, before the effect clears
\* the timer, and the state after that run of the effect.
C19_Witness ==
    /\ toasts = << ToastRestored >>
    /\ animTimer.pending
    /\ effectPending
    /\ outputText # << >>
    /\ displayedOutput = outputText
    /\ ~isAnimatingOutput
    /\ ~shouldAnimateOutput

\* C20: tearing the component down clears the reveal timer, so that after it
\* no timer of a reveal is set, no callback of a reveal runs and the output
\* state is not written.
C20_NoRevealAfterUnmount ==
    [][ /\ Unmount => ~animTimer'.pending
        /\ ~mounted
           => /\ ~animTimer.pending
              /\ ~( ~effectPending /\ AnimateTick )
              /\ UNCHANGED << outputText, displayedOutput,
                              shouldAnimateOutput, isAnimatingOutput,
                              animTimer >> ]_vars

\* The component was torn down after the first tick of a reveal.
C20_Witness ==
    /\ ~mounted
    /\ outputText = OutZ
    /\ displayedOutput = Slice0(OutZ, 1)
    /\ isAnimatingOutput
    /\ shouldAnimateOutput

\* C21: when a detection request fails (fetch throws or the response is not
\* ok), the input analysis shown before stays, no toast is raised and
\* isDetecting becomes false.
C21_FailedDetectionKeepsAnalysis ==
    [][ \A d \in detects, score \in Scores :
          ( mounted /\ DetectionResponse(d, FALSE, score) )
          => /\ inputAIAnalysis' = inputAIAnalysis
             /\ ~isDetecting'
             /\ toasts' = << >> ]_vars

\* The analysis of request 1 is shown after request 2 was answered too, and
\* nothing is in flight.
C21_Witness ==
    /\ mounted
    /\ nReq = 2
    /\ detects = { }
    /\ inputAIAnalysis.kind = "detect"
    /\ inputAIAnalysis.src = 1
    /\ ~isDetecting
    /\ toasts = << >>

\* C22: a rewrite response that is ok with a transformed text but without
\* the inline detection results still gives both the input and the output
\* an analysis, raises no error, and, for a call made by a user, goes on to
\* store and append its record.
C22_MissingDetectionFallsBack ==
    [][ \A c \in convs, r \in Responses :
          ( r.status = "ok" /\ r.text # << >> /\ ~r.det /\ ConvertResponse(c, r) )
          => /\ inputAIAnalysis'.kind # "null"
             /\ outputAIAnalysis'.kind # "null"
             /\ toasts' \in { << >>, << ToastSuccess >> }
             /\ c.uid # NoUser
                => \/ Len(history') = Len(history) + 1
                   \/ \E p \in convs' : p.id = c.id /\ p.phase = "persist" ]_vars

\* C23: a convert call that passes the validation clears outputText,
\* displayedOutput, the output analysis and the reveal timer before the
\* request is issued, and while the rewrite request is in flight the output
\* shows nothing of a conversion made before.
RewriteInFlight == \E c \in convs : c.phase = "rewrite"

C23_NothingShownInFlight ==
    RewriteInFlight
    => /\ outputText = << >>
       /\ displayedOutput = << >>
       /\ outputAIAnalysis = NoAnalysis
       /\ ~animTimer.pending

\* C24: after every load, conversion, delete and clear the local list is
\* newest first by creation time (equal times in insertion order), and a
\* conversion puts its record at the head of the list it found.
NewestFirst(list) ==
    \A i, j \in DOMAIN list : i < j => list[i].timestamp >= list[j].timestamp

C24_HistoryNewestFirst ==
    [][ /\ NewestFirst(history')
        /\ \A c \in convs, saved \in BOOLEAN, t \in 0..MaxNow :
              ConvertPersisted(c, saved, t)
              => /\ Tail(history') = history
                 /\ Head(history').timestamp = t
                 /\ Head(history').inputText = c.text ]_vars

\* A record made after the clock moved is at the head of a list that holds
\* an older record.
C24_Witness ==
    /\ Len(history) >= 2
    /\ history[1].timestamp > history[2].timestamp
    /\ history[1].id.n = 1

\* C25 as stated: clearAllHistory called with an empty list issues no
\* remote delete and leaves the list and all other state unchanged.
C25_ClearEmptyIsNoOp ==
    [][ ( history = << >> /\ ClearAllHistory ) => UNCHANGED allButToasts ]_vars

\* C25 amended: clearAllHistory called with an empty list issues no remote
\* delete, raises no toast and leaves the list, the stored documents and all
\* other state unchanged, except that it closes the history panel.
C25_ClearEmptyOnlyClosesPanel ==
    [][ ( history = << >> /\ ClearAllHistory )
        => /\ history' = << >>
           /\ ~showHistory'
           /\ toasts' = << >>
           /\ UNCHANGED << clears, deletes, remote, loads, convs, user,
                           outputVars, inputText, tone, isConverting,
                           inputAIAnalysis, outputAIAnalysis, isDetecting,
                           detectionTimeout, timers, detects, nReq, nConv,
                           now, mounted >> ]_vars

\* The panel is open on an empty list while the user's documents are stored
\* and no call is in flight: a clear called now has nothing to clear.
C25_Witness ==
    /\ showHistory
    /\ history = << >>
    /\ user = "u1"
    /\ remote["u1"] # << >>
    /\ Pending = 0
    /\ ~effectPending

\* C26: the texts of the segments the scoring engine gives for a text,
\* concatenated in order, are the text itself, and no segment is empty.
RECURSIVE ConcatSegments(_)
ConcatSegments(segments) ==
    IF segments = << >> THEN << >>
    ELSE Head(segments).text \o ConcatSegments(Tail(segments))

C26_SegmentsReconstructText ==
    inputAIAnalysis.kind = "local"
    => /\ ConcatSegments(inputAIAnalysis.segments) = inputText
       /\ \A i \in DOMAIN inputAIAnalysis.segments :
             inputAIAnalysis.segments[i].text # << >>

\* A text scored in two segments, the first one ending with two terminators
\* and the last one with none.
C26_Witness ==
    /\ inputAIAnalysis.kind = "local"
    /\ inputText = << "a", ".", "?", " " >>
    /\ Len(inputAIAnalysis.segments) = 2
    /\ inputAIAnalysis.segments[2].text = << " " >>

\* C27: a record leaves the local list only by the delete of that record,
\* by a clear, or when its owner signs out; in particular a load of the
\* history that completes after a conversion put its record in the list
\* does not drop it.
C27_RecordsLeaveOnlyOnRequest ==
    [][ \A i \in DOMAIN history :
          LET e == history[i] IN
          ( e.id \notin Ids(history') )
          => \/ \E d \in deletes : d.id = e.id /\ DeleteCompleted(d, TRUE)
             \/ user = NoUser /\ DeleteHistoryEntry(e.id)
             \/ history' = << >> /\ ClearAllHistory
             \/ \E c \in clears : ClearCompleted(c, c.ids)
             \/ user = e.owner /\ user' # user ]_vars

C29_RecordsPairOwnCall ==
    \A i \in DOMAIN history :
       LET e == history[i]
           r == RewriteOf(e.inputText, e.tone)
       IN /\ e.outputText = r.text
          /\ e.inputAIPercentage = r.inScore
          /\ e.outputAIPercentage = r.outScore

\* Two calls overlapped, with different texts and tones: the record of the
\* call made first was put in the list after the record of the second.
C29_Witness ==
    /\ Len(history) >= 2
    /\ history[1].id.n = 1
    /\ history[2].id.n = 2
    /\ history[1].id.src = history[2].id.src
    /\ history[1].inputText # history[2].inputText
    /\ history[1].tone # history[2].tone

\* C30: when handleConvert is called only from the convert button, which is
\* disabled for a blank input and while isConverting, at most one conversion
\* is in flight at any time, and isConverting is true exactly while one is.
C30_OneConversionInFlight ==
    mounted
    => /\ Cardinality(convs) <= 1
       /\ isConverting <=> convs # { }

\* The second conversion of the session is waiting for saveHistoryEntry, and
\* the first one is over.
C30_Witness ==
    /\ mounted
    /\ isConverting
    /\ nConv = 2
    /\ \E c \in convs : c.id = 2 /\ c.phase = "persist"
    /\ history # << >>

\* C31: every call of handleConvert that passes the validation ends with
\* isConverting set to false, whether the rewrite request succeeds, is
\* answered with an error or throws and whether saveHistoryEntry returns or
\* throws; and when the collaborators answer, it does end.
C31_ConvertingIsReset ==
    /\ [][ ( mounted /\ \E c \in convs : \A d \in convs' : d.id # c.id )
           => ~isConverting' ]_vars
    /\ ( isConverting /\ convs # { } ) ~> ( ~isConverting \/ ~mounted )

\* A conversion is over after saveHistoryEntry threw, and isConverting is
\* false.
C31_Witness ==
    /\ mounted
    /\ ~isConverting
    /\ convs = { }
    /\ nConv >= 1
    /\ toasts = << ToastSyncFailed, ToastSuccess >>

\* C32: while a debounce timer is armed or a detection request is in flight
\* for the input field, isDetecting is true; it is false only when neither is
\* pending.
C32_PendingMeansDetecting ==
    ( mounted /\ ( timers # { } \/ detects # { } ) ) => isDetecting

\* C33: after restoreFromHistory(entry) the input analysis is the restored
\* one with entry.inputAIPercentage, and no debounce timer or detection
\* request started for the text typed before the restore overwrites it.  The
\* input is that of the stored record only while nothing was typed since the
\* restore (RestoreTexts), so whatever is pending then was started before it.
C33_RestoredAnalysisStays ==
    ( mounted /\ inputText = SeedDoc.inputText )
        => inputAIAnalysis = RestoredResult(SeedDoc.inputAIPercentage)

\* C34: when clearAllHistory succeeds, every record it takes off the local
\* list had its remote delete issued by this call; a record that a conversion
\* put on the list while the deletes were in flight stays.
C34_ClearRemovesOnlyDeleted ==
    [][ \A c \in clears :
           ( c \notin clears' /\ toasts' = << ToastCleared >> )
               => \A e \in Range(history) :
                      e.id \notin c.ids => e \in Range(history') ]_vars

\* C35: when clearAllHistory succeeds for a signed-in identity, the remote
\* store holds no entry of that identity any more, so that a later load
\* yields the empty list, also when the store held more entries than the
\* page of HistoryPageSize that was loaded.
C35_ClearEmptiesRemote ==
    [][ \A c \in clears :
           ( c \notin clears' /\ toasts' = << ToastCleared >> )
               => /\ remote'[c.uid] = << >>
                  /\ FetchHistoryEntries(c.uid, HistoryPageSize)' = << >> ]_vars

\* C36: whatever the sequence and interleaving of history loads,
\* conversions, deletes and clears, no two records of the local history list
\* have the same id.
C36_HistoryIdsDistinct ==
    \A i, j \in DOMAIN history : history[i].id = history[j].id => i = j

\* C37: when a conversion has succeeded, the input text is the text that was
\* submitted with it, also when the user edited the input field while the
\* conversion was in flight.
C37_InputIsSubmittedText ==
    [][ \A c \in convs :
           ( /\ mounted
             /\ \A d \in convs' : d.id # c.id
             /\ toasts' # << >>
             /\ toasts'[Len(toasts')] = ToastSuccess )
               => inputText' = c.text ]_vars

=============================================================================
